---- MODULE Spec2Model ----
(***************************************************************************)
(* Model of the nakamoto light client's SPV event mapper                   *)
(* (client/src/spv.rs) and of the waiting operations of the client Handle  *)
(* (client/src/client.rs).                                                 *)
(***************************************************************************)
EXTENDS Integers, Naturals, Sequences, FiniteSets, TLC

\* Heights fed to the mapper range over 0..MaxHeight.
MaxHeight == 2

Heights == 0..MaxHeight

VARIABLES
    \* spv::Mapper fields
    tip, sync_height, filter_height, block_height, pending,
    \* "ok" while the mapper runs; the name of the failed assertion after a panic
    status,
    \* whether debug assertions are compiled in (debug_assert! is a no-op otherwise)
    debug_build,
    \* the protocol event handed to the last Mapper::process call
    ev,
    \* the client events emitted by the last Mapper::process call, in order
    emitted,
    \* the mapper fields as they were before the last Mapper::process call
    pre,
    \* TRUE while every FilterProcessed so far had height >= filter_height
    filterOrdered,
    \* the height of the last Synced emitted since construction or the last
    \* RescanStarted, -1 if there was none
    lastSynced,
    \* the reactor side: whether Reactor::run is still running, the best height
    \* of its chain, the state of each peer, the command channel and the wake
    \* signal
    running, chainHeight, peers, commands, woken,
    \* the heights h for which ChainEvent::Synced(_, h) was published
    syncedSeen,
    \* per caller thread: the Handle operation it runs and its argument, the
    \* index of its next statement, its event subscription and backlog, its
    \* reply channel, the peers wait_for_peers has collected, the outcome of
    \* commands.send and of waker.wake, the value the operation returned, and
    \* whether an event published after its command was enqueued did not
    \* reach its subscription
    op, arg, pc, subscribed, backlog, reply, negotiated, sendResult, wakeResult,
    result, missed,
    \* the number of signals in the shutdown channel, and per cloned handle the
    \* position of its Handle::shutdown call
    shutdown, closing,
    \* the events handed to Publisher::publish so far, the events each
    \* registered sink was handed, and what each sink emitted on its topic
    source, handed, topics,
    \* Client::run: the index of its next statement, the calls made on each
    \* store with their results, the loading channel, and how far the run got
    step, stores, loading, outcome,
    \* per cloned handle dispatching a command: the index of its next
    \* statement in Handle::_command and the outcome of the call
    dispatching

mapperVars == <<tip, sync_height, filter_height, block_height, pending, status,
                debug_build, ev, emitted, pre, filterOrdered, lastSynced>>

reactorVars == <<running, chainHeight, peers, commands, woken, syncedSeen>>

callerVars == <<op, arg, pc, subscribed, backlog, reply, negotiated, sendResult,
                wakeResult, result, missed>>

handleVars == <<reactorVars, callerVars>>

shutdownVars == <<shutdown, closing>>

publisherVars == <<source, handed, topics>>

startupVars == <<step, stores, loading, outcome>>

cloneVars == <<dispatching>>

auxVars == <<shutdownVars, publisherVars, startupVars, cloneVars>>

vars == <<mapperVars, handleVars, auxVars>>

----------------------------------------------------------------------------
\* Protocol events (fsm::Event), reduced to the fields the mapper reads.

Event(type, height, matched, valid, fees) ==
    [type |-> type, height |-> height, matched |-> matched, valid |-> valid, fees |-> fees]

NoEvent == Event("None", 0, FALSE, FALSE, FALSE)

\* Events that are translated 1:1 into a client event and touch no field.
TranslatedTypes == {"Ready", "PeerConnected", "PeerConnectionFailed", "PeerNegotiated",
                    "PeerDisconnected", "PeerHeightUpdated", "BlockConnected",
                    "BlockDisconnected", "Confirmed", "Acknowledged"}

\* Events that fall into the `_ => {}` arm.
IgnoredTypes == {"FilterReceived"}

\* Client events (client::Event), reduced to type, height and one payload field:
\* the tip for Synced, matched for FilterProcessed.
Client(type, height, aux) == [type |-> type, height |-> height, aux |-> aux]

TranslatedClientType(t) ==
    CASE t = "Ready" -> "Ready"
      [] t = "PeerConnected" -> "PeerConnected"
      [] t = "PeerConnectionFailed" -> "PeerConnectionFailed"
      [] t = "PeerNegotiated" -> "PeerNegotiated"
      [] t = "PeerDisconnected" -> "PeerDisconnected"
      [] t = "PeerHeightUpdated" -> "PeerHeightUpdated"
      [] t = "BlockConnected" -> "BlockConnected"
      [] t = "BlockDisconnected" -> "BlockDisconnected"
      [] t = "Confirmed" -> "TxStatusChanged"
      [] t = "Acknowledged" -> "TxStatusChanged"

----------------------------------------------------------------------------
\* The mapper as a record, so that the handlers compose as in the source.

Mapper(t, s, f, b, p, st, out) ==
    [tip |-> t, sync_height |-> s, filter_height |-> f, block_height |-> b,
     pending |-> p, status |-> st, out |-> out]

\* Mapper::new
MapperNew == Mapper(0, 0, 0, 0, {}, "ok", <<>>)

Fields(m) == [tip |-> m.tip, sync_height |-> m.sync_height,
              filter_height |-> m.filter_height, block_height |-> m.block_height,
              pending |-> m.pending]

\* A process_block that takes every block for a matched one.
process_block_unchecked(m, height, debug) ==
    LET removed == [m EXCEPT !.pending = m.pending \ {height}]
    IN IF debug /\ ~(height >= m.block_height)
       THEN [removed EXCEPT !.status = "debug_assert_block"]
       ELSE [removed EXCEPT !.block_height = height,
                            !.out = Append(m.out, Client("BlockMatched", height, 0))]

\* Mapper::process_block
process_block(m, height, debug) ==
    IF height \notin m.pending
    THEN m
    ELSE LET removed == [m EXCEPT !.pending = m.pending \ {height}]
         IN IF debug /\ ~(height >= m.block_height)
            THEN [removed EXCEPT !.status = "debug_assert_block"]
            ELSE [removed EXCEPT !.block_height = height,
                                 !.out = Append(m.out, Client("BlockMatched", height, 0))]

\* A process_filter that awaits the block of every filter, matched or not.
process_filter_always_pending(m, height, matched, valid, debug) ==
    IF debug /\ ~(height >= m.filter_height)
    THEN [m EXCEPT !.status = "debug_assert_filter"]
    ELSE [m EXCEPT !.pending = m.pending \cup {height},
                   !.filter_height = height,
                   !.out = Append(m.out, Client("FilterProcessed", height, matched))]

\* Mapper::process_filter
process_filter(m, height, matched, valid, debug) ==
    IF debug /\ ~(height >= m.filter_height)
    THEN [m EXCEPT !.status = "debug_assert_filter"]
    ELSE [m EXCEPT !.pending = IF matched THEN m.pending \cup {height} ELSE m.pending,
                   !.filter_height = height,
                   !.out = Append(m.out, Client("FilterProcessed", height, matched))]

\* A candidate that ignores the processed filters.
Candidate_block_only(m) == m.block_height

\* The height reported as synced: the last processed filter when no block is
\* awaited, the last processed block otherwise.
Candidate(m) == IF m.pending = {} THEN m.filter_height ELSE m.block_height

\* A Synced rule that fires whenever the candidate differs from the reported height.
SyncAdvances_on_change(height, sync) == height /= sync

\* A Synced rule that never fires.
SyncAdvances_never(height, sync) == FALSE

\* A Synced rule that fires only when the candidate is two or more ahead.
SyncAdvances_by_two(height, sync) == height > sync + 1

\* `if height > self.sync_height`
SyncAdvances(height, sync) == height > sync

\* The tail of Mapper::process: the two assert!s and the Synced rule.
process_tail(m) ==
    IF m.status /= "ok" THEN m
    ELSE IF ~(m.block_height <= m.filter_height) THEN [m EXCEPT !.status = "assert_block"]
    ELSE IF ~(m.sync_height <= m.filter_height) THEN [m EXCEPT !.status = "assert_sync"]
    ELSE LET height == Candidate(m)
         IN IF SyncAdvances(height, m.sync_height)
            THEN [m EXCEPT !.sync_height = height,
                           !.out = Append(m.out, Client("Synced", height, m.tip))]
            ELSE m

\* A rescan that resets the filter and block cursors but keeps the reported height.
rescan_started_keep_sync(m, start) ==
    [m EXCEPT !.pending = {}, !.filter_height = start, !.block_height = start]

\* A rescan that forgets to clear the awaited blocks.
rescan_started_keep_pending(m, start) ==
    [m EXCEPT !.filter_height = start, !.sync_height = start, !.block_height = start]

\* The FilterEvent::RescanStarted arm of Mapper::process.
rescan_started(m, start) ==
    [m EXCEPT !.pending = {}, !.filter_height = start,
              !.sync_height = start, !.block_height = start]

\* A ChainEvent::Synced arm that also reports the height to the client.
chain_synced_reports(m, height) ==
    [m EXCEPT !.tip = height, !.out = Append(m.out, Client("Synced", height, height))]

\* The ChainEvent::Synced arm of Mapper::process: `self.tip = height`.
chain_synced(m, height) == [m EXCEPT !.tip = height]

\* A BlockProcessed arm that reports the fees before it looks at the block.
block_processed_fees_first(m, height, fees, debug) ==
    process_block(IF fees
                  THEN [m EXCEPT !.out = Append(m.out, Client("FeeEstimated", height, 0))]
                  ELSE m,
                  height, debug)

\* The InventoryEvent::BlockProcessed arm of Mapper::process: process_block,
\* then FeeEstimated if the event carries fees.
block_processed(m, height, fees, debug) ==
    LET r == process_block(m, height, debug)
    IN IF r.status = "ok" /\ fees
       THEN [r EXCEPT !.out = Append(r.out, Client("FeeEstimated", height, 0))]
       ELSE r

\* The match arms of Mapper::process.
process_match(m, e, debug) ==
    CASE e.type \in TranslatedTypes ->
            [m EXCEPT !.out = Append(m.out, Client(TranslatedClientType(e.type), e.height, 0))]
      [] e.type = "ChainSynced" ->
            chain_synced(m, e.height)
      [] e.type = "BlockProcessed" ->
            block_processed(m, e.height, e.fees, debug)
      [] e.type = "RescanStarted" ->
            rescan_started(m, e.height)
      [] e.type = "FilterProcessed" ->
            process_filter(m, e.height, e.matched, e.valid, debug)
      [] OTHER -> m

\* Mapper::process
process(m, e, debug) == process_tail(process_match(m, e, debug))

----------------------------------------------------------------------------
Current == Mapper(tip, sync_height, filter_height, block_height, pending, status, <<>>)

MapperInit ==
    /\ tip = MapperNew.tip
    /\ sync_height = MapperNew.sync_height
    /\ filter_height = MapperNew.filter_height
    /\ block_height = MapperNew.block_height
    /\ pending = MapperNew.pending
    /\ status = MapperNew.status
    /\ debug_build \in BOOLEAN
    /\ ev = NoEvent
    /\ emitted = <<>>
    /\ pre = Fields(MapperNew)
    /\ filterOrdered = TRUE
    /\ lastSynced = -1

\* One call of Mapper::process(e, emitter).
MapperStep(e) ==
    /\ status = "ok"
    /\ LET r == process(Current, e, debug_build)
       IN /\ tip' = r.tip
          /\ sync_height' = r.sync_height
          /\ filter_height' = r.filter_height
          /\ block_height' = r.block_height
          /\ pending' = r.pending
          /\ status' = r.status
          /\ emitted' = r.out
    /\ ev' = e
    /\ pre' = Fields(Current)
    /\ filterOrdered' = (filterOrdered /\
                          (e.type = "FilterProcessed" => e.height >= filter_height))
    /\ lastSynced' = LET out == process(Current, e, debug_build).out
                          at == {i \in 1..Len(out) : out[i].type = "Synced"}
                      IN IF at /= {} THEN out[CHOOSE i \in at : \A j \in at : j <= i].height
                         ELSE IF e.type = "RescanStarted" THEN -1
                         ELSE lastSynced
    /\ UNCHANGED debug_build

\* One Mapper::process call on a client whose other threads are idle.
Process(e) == MapperStep(e) /\ UNCHANGED <<handleVars, auxVars>>

ProcessTranslated ==
    \E t \in TranslatedTypes : Process(Event(t, 0, FALSE, FALSE, FALSE))

ProcessIgnored ==
    \E t \in IgnoredTypes : Process(Event(t, 0, FALSE, FALSE, FALSE))

ProcessChainSynced ==
    \E h \in Heights : Process(Event("ChainSynced", h, FALSE, FALSE, FALSE))

ProcessBlockProcessed ==
    \E h \in Heights, fees \in BOOLEAN : Process(Event("BlockProcessed", h, FALSE, FALSE, fees))

ProcessRescanStarted ==
    \E start \in Heights : Process(Event("RescanStarted", start, FALSE, FALSE, FALSE))

ProcessFilterProcessed ==
    \E h \in Heights, matched \in BOOLEAN, valid \in BOOLEAN :
        Process(Event("FilterProcessed", h, matched, valid, FALSE))

----------------------------------------------------------------------------
\* The Handle (client.rs) and the reactor it talks to.

\* Caller threads holding a clone of the Handle: the first one calls any
\* operation, the others dispatch fire-and-forget commands next to it.
NumCallers == 1

\* The chain of the reactor grows up to MaxChain.
MaxChain == 2

\* A subscription's backlog holds at most MaxBacklog unread events.
MaxBacklog == 1

Callers == 1..NumCallers

Addrs == {"p1", "p2"}

\* The block hash at a height (distinct from the height itself).
HashAt(h) == 10 + h

Ops == {"wait_for_height", "connect", "disconnect", "wait_for_peers", "get_tip", "get_block"}

\* Operations that only dispatch a command.
BackgroundOps == {"get_block"}

\* Operations that wait on the raw event stream after their command.
WaitingOps == {"wait_for_height", "connect", "disconnect", "wait_for_peers"}

\* Operations that send one command and wait for its reply.
DispatchOps == {"get_tip", "get_filters"}

Arg(num, addr) == [num |-> num, addr |-> addr]

\* A RangeInclusive<Height>: `num..=last`.
ArgRange(first, last) == [num |-> first, addr |-> "p1", last |-> last]

\* RangeInclusive::is_empty
range_is_empty(r) == r.num > r.last

\* The arguments an operation is called with: a height, an address, a count.
Args(o) ==
    CASE o = "wait_for_height" -> {Arg(h, "p1") : h \in 1..MaxChain}
      [] o = "wait_for_peers" -> {Arg(n, "p1") : n \in 1..Cardinality(Addrs)}
      [] o \in {"connect", "disconnect"} -> {Arg(0, "p1")}
      [] o = "get_filters" -> {ArgRange(a, b) : a, b \in 0..MaxChain}
      [] OTHER -> {Arg(0, "p1")}

\* Raw protocol events as the Handle's predicates read them.
Raw(type, num, hash, addr, services) ==
    [type |-> type, num |-> num, hash |-> hash, addr |-> addr, services |-> services]

\* Values travelling on a reply channel or returned by an operation.
Val(tag, num, set) == [tag |-> tag, num |-> num, set |-> set]

Empty == Val("empty", 0, {})

Cmd(type, a, from) == [type |-> type, arg |-> a, from |-> from]

\* The command an operation puts on the command channel.
CommandOf(o) ==
    CASE o = "wait_for_height" -> "GetBlockByHeight"
      [] o = "connect" -> "Connect"
      [] o = "disconnect" -> "Disconnect"
      [] o = "wait_for_peers" -> "GetPeers"
      [] o = "get_tip" -> "GetTip"
      [] o = "get_block" -> "GetBlock"
      [] o = "get_filters" -> "GetFilters"

\* A dispatch that wakes the reactor before the command is on the channel.
command_wake_first == <<"wake", "send">>

\* A dispatch that never wakes the reactor.
command_send_only == <<"send">>

\* Handle::_command and Handle::command: the statements in source order.
command == <<"send", "wake">>

\* Handle::get_block_by_height
get_block_by_height == command \o <<"recv">>

\* Handle::get_peers
get_peers == command \o <<"recv">>

\* Handle::get_tip
get_tip == command \o <<"recv">>

\* Handle::get_block
get_block == command

\* A get_filters that looks at its range only after dispatching the command.
get_filters_check_late == command \o <<"assert_range", "recv">>

\* Handle::get_filters
get_filters == <<"assert_range">> \o command \o <<"recv">>

\* A wait_for_height that subscribes only once the reply is in.
wait_for_height_late_subscribe == get_block_by_height \o <<"subscribe", "wait">>

\* Handle::wait_for_height
wait_for_height == <<"subscribe">> \o get_block_by_height \o <<"wait">>

\* A connect that subscribes after dispatching its command.
connect_late_subscribe == command \o <<"subscribe", "wait">>

\* Handle::connect
connect == <<"subscribe">> \o command \o <<"wait">>

\* Handle::disconnect
disconnect == <<"subscribe">> \o command \o <<"wait">>

\* Handle::wait_for_peers
wait_for_peers == <<"subscribe">> \o get_peers \o <<"wait">>

Code(o) ==
    CASE o = "wait_for_height" -> wait_for_height
      [] o = "connect" -> connect
      [] o = "disconnect" -> disconnect
      [] o = "wait_for_peers" -> wait_for_peers
      [] o = "get_tip" -> get_tip
      [] o = "get_block" -> get_block
      [] o = "get_filters" -> get_filters

\* The statement caller c executes next, "return" once the operation returned.
Stmt(c) ==
    IF result[c] /= Empty \/ pc[c] > Len(Code(op[c])) THEN "return" ELSE Code(op[c])[pc[c]]

\* Ok(value) when the statement just executed was the last one.
Advance(c, value) ==
    /\ pc' = [pc EXCEPT ![c] = pc[c] + 1]
    /\ result' = [result EXCEPT ![c] = IF pc[c] = Len(Code(op[c])) THEN value ELSE Empty]

Return(c, value) ==
    /\ pc' = [pc EXCEPT ![c] = pc[c] + 1]
    /\ result' = [result EXCEPT ![c] = value]

\* The receive endpoints of an operation are dropped when it returns.
Dropped(f, c, empty) == [f EXCEPT ![c] = IF result'[c] /= Empty THEN empty ELSE f[c]]

\* Subscriber::subscribe: a new receive endpoint with an empty backlog.
Subscribe(c) ==
    /\ Stmt(c) = "subscribe"
    /\ subscribed' = [subscribed EXCEPT ![c] = TRUE]
    /\ backlog' = [backlog EXCEPT ![c] = <<>>]
    /\ Advance(c, Val("ok", 0, {}))
    /\ UNCHANGED <<mapperVars, auxVars, reactorVars, op, arg, reply, negotiated, sendResult, wakeResult, missed>>

\* `assert!(!range.is_empty(), ...)`: the calling thread panics on an empty range.
AssertRange(c) ==
    /\ Stmt(c) = "assert_range"
    /\ IF range_is_empty(arg[c])
       THEN Return(c, Val("panic", 0, {}))
       ELSE Advance(c, Val("ok", 0, {}))
    /\ UNCHANGED <<mapperVars, auxVars, reactorVars, op, arg, subscribed, backlog, reply,
                   negotiated, sendResult, wakeResult, missed>>

\* `self.commands.send(cmd)?`: fails once the receiver is gone.
Send(c) ==
    /\ Stmt(c) = "send"
    /\ IF running
       THEN /\ commands' = Append(commands, Cmd(CommandOf(op[c]), arg[c], c))
            /\ sendResult' = [sendResult EXCEPT ![c] = "ok"]
            /\ Advance(c, Val("ok", 0, {}))
       ELSE /\ sendResult' = [sendResult EXCEPT ![c] = "err"]
            /\ Return(c, Val("err_command", 0, {}))
            /\ UNCHANGED commands
    /\ subscribed' = Dropped(subscribed, c, FALSE)
    /\ backlog' = Dropped(backlog, c, <<>>)
    /\ UNCHANGED <<mapperVars, auxVars, running, chainHeight, peers, woken, syncedSeen, op, arg,
                   reply, negotiated, wakeResult, missed>>

\* `self.waker.wake()?`: an io::Result.
Wake(c) ==
    /\ Stmt(c) = "wake"
    /\ \E ok \in BOOLEAN :
        IF ok
        THEN /\ woken' = (woken \/ running)
             /\ wakeResult' = [wakeResult EXCEPT ![c] = "ok"]
             /\ Advance(c, Val("ok", 0, {}))
        ELSE /\ wakeResult' = [wakeResult EXCEPT ![c] = "err"]
             /\ Return(c, Val("err_command", 0, {}))
             /\ UNCHANGED woken
    /\ subscribed' = Dropped(subscribed, c, FALSE)
    /\ backlog' = Dropped(backlog, c, <<>>)
    /\ UNCHANGED <<mapperVars, auxVars, running, chainHeight, peers, commands, syncedSeen, op, arg,
                   reply, negotiated, sendResult, missed>>

\* A wait_for_peers that always goes on to wait for events.
wait_for_peers_never_ready(known, count) == FALSE

\* `if negotiated.len() == count` on the reply to GetPeers.
wait_for_peers_ready(known, count) == Cardinality(known) = count

\* `recvr.recv()?` and what the operation does with the reply.
Recv(c) ==
    /\ Stmt(c) = "recv"
    /\ reply[c] /= Empty
    /\ reply' = [reply EXCEPT ![c] = Empty]
    /\ CASE op[c] = "wait_for_height" ->
               /\ IF reply[c].tag = "some"
                  THEN Return(c, Val("ok", reply[c].num, {}))
                  ELSE Advance(c, Val("ok", 0, {}))
               /\ UNCHANGED negotiated
         [] op[c] = "wait_for_peers" ->
               /\ IF wait_for_peers_ready(reply[c].set, arg[c].num)
                  THEN Return(c, Val("ok", 0, reply[c].set))
                  ELSE Advance(c, Val("ok", 0, {}))
               /\ negotiated' = Dropped([negotiated EXCEPT ![c] = reply[c].set], c, {})
         [] OTHER ->
               /\ Advance(c, Val("ok", reply[c].num, reply[c].set))
               /\ UNCHANGED negotiated
    /\ subscribed' = Dropped(subscribed, c, FALSE)
    /\ backlog' = Dropped(backlog, c, <<>>)
    /\ UNCHANGED <<mapperVars, auxVars, reactorVars, op, arg, sendResult, wakeResult, missed>>

\* `recvr.recv()?` when the command was dropped with the reactor.
RecvDisconnected(c) ==
    /\ Stmt(c) = "recv"
    /\ reply[c] = Empty
    /\ ~running
    /\ Return(c, Val("err_disconnected", 0, {}))
    /\ subscribed' = Dropped(subscribed, c, FALSE)
    /\ backlog' = Dropped(backlog, c, <<>>)
    /\ UNCHANGED <<mapperVars, auxVars, reactorVars, op, arg, reply, negotiated,
                   sendResult, wakeResult, missed>>

\* The closure wait_for_height hands to event::wait.
wait_for_height_matches(e, h) == e.type = "Synced" /\ e.num = h

\* The closure connect hands to event::wait.
connect_matches(e, addr) == e.type = "Connected" /\ e.addr = addr

\* The closure disconnect hands to event::wait.
disconnect_matches(e, addr) == e.type = "Disconnected" /\ e.addr = addr

\* The peers wait_for_peers knows after an event.
wait_for_peers_insert(known, e) ==
    IF e.type = "Negotiated" /\ e.services THEN known \cup {e.addr} ELSE known

\* `if negotiated.len() == count`
wait_for_peers_done(known, count) == Cardinality(known) = count

\* event::wait: take the next event of the subscription and apply the closure.
WaitEvent(c) ==
    /\ Stmt(c) = "wait"
    /\ backlog[c] /= <<>>
    /\ LET e == Head(backlog[c])
       IN /\ CASE op[c] = "wait_for_height" ->
                    /\ IF wait_for_height_matches(e, arg[c].num)
                       THEN Return(c, Val("ok", e.hash, {}))
                       ELSE UNCHANGED <<pc, result>>
                    /\ UNCHANGED negotiated
               [] op[c] = "connect" ->
                    /\ IF connect_matches(e, arg[c].addr)
                       THEN Return(c, Val("ok", 0, {}))
                       ELSE UNCHANGED <<pc, result>>
                    /\ UNCHANGED negotiated
               [] op[c] = "disconnect" ->
                    /\ IF disconnect_matches(e, arg[c].addr)
                       THEN Return(c, Val("ok", 0, {}))
                       ELSE UNCHANGED <<pc, result>>
                    /\ UNCHANGED negotiated
               [] op[c] = "wait_for_peers" ->
                    LET known == wait_for_peers_insert(negotiated[c], e)
                    IN /\ IF e.type = "Negotiated" /\ wait_for_peers_done(known, arg[c].num)
                          THEN Return(c, Val("ok", 0, known))
                          ELSE UNCHANGED <<pc, result>>
                       /\ negotiated' = Dropped([negotiated EXCEPT ![c] = known], c, {})
          /\ backlog' = Dropped([backlog EXCEPT ![c] = Tail(backlog[c])], c, <<>>)
    /\ subscribed' = Dropped(subscribed, c, FALSE)
    /\ UNCHANGED <<mapperVars, auxVars, reactorVars, op, arg, reply, sendResult, wakeResult, missed>>

\* event::wait: nothing arrived on the subscription until the timeout ran out.
WaitTimeout(c) ==
    /\ Stmt(c) = "wait"
    /\ backlog[c] = <<>>
    /\ Return(c, Val("timeout", 0, {}))
    /\ subscribed' = Dropped(subscribed, c, FALSE)
    /\ negotiated' = Dropped(negotiated, c, {})
    /\ UNCHANGED <<mapperVars, auxVars, reactorVars, op, arg, backlog, reply,
                   sendResult, wakeResult, missed>>

----------------------------------------------------------------------------
\* The reactor thread: Reactor::run with the protocol state machine.

InFlight(c) == result[c] = Empty

\* No backlog is full.
CanPublish == \A c \in Callers : Len(backlog[c]) < MaxBacklog

\* Publisher::publish, the raw event sink: every live subscription gets the event.
Publish(e) ==
    /\ CanPublish
    /\ backlog' = [c \in Callers |->
                     IF subscribed[c] THEN Append(backlog[c], e) ELSE backlog[c]]
    /\ missed' = [c \in Callers |->
                     missed[c] \/ (InFlight(c) /\ sendResult[c] = "ok" /\ ~subscribed[c])]
    /\ syncedSeen' = IF e.type = "Synced" THEN syncedSeen \cup {e.num} ELSE syncedSeen

NoPublish == UNCHANGED <<backlog, missed, syncedSeen>>

NegotiatedPeers == {a \in Addrs : peers[a] = "negotiated"}

\* A reply sent on the command's channel; it is lost if the caller is gone.
Reply(c, value) == [reply EXCEPT ![c] = IF InFlight(c) THEN value ELSE Empty]

\* The reactor takes the next command off the channel and applies it.
ReactorCommand ==
    /\ running /\ woken /\ commands /= <<>>
    /\ LET cmd == Head(commands)
           c == cmd.from
       IN /\ commands' = Tail(commands)
          /\ CASE cmd.type = "GetBlockByHeight" ->
                    /\ reply' = Reply(c, IF cmd.arg.num <= chainHeight
                                         THEN Val("some", HashAt(cmd.arg.num), {})
                                         ELSE Val("none", 0, {}))
                    /\ NoPublish /\ UNCHANGED peers
               [] cmd.type = "GetPeers" ->
                    /\ reply' = Reply(c, Val("peers", 0, NegotiatedPeers))
                    /\ NoPublish /\ UNCHANGED peers
               [] cmd.type = "GetTip" ->
                    /\ reply' = Reply(c, Val("tip", chainHeight, {}))
                    /\ NoPublish /\ UNCHANGED peers
               [] cmd.type = "GetFilters" ->
                    /\ reply' = Reply(c, Val("filters", cmd.arg.num, {}))
                    /\ NoPublish /\ UNCHANGED peers
               [] cmd.type = "Connect" ->
                    /\ peers' = [peers EXCEPT ![cmd.arg.addr] =
                                   IF @ = "none" THEN "connecting" ELSE @]
                    /\ NoPublish /\ UNCHANGED reply
               [] cmd.type = "Disconnect" ->
                    /\ IF peers[cmd.arg.addr] \in {"connected", "negotiated", "unserviced"}
                          /\ CanPublish
                       THEN /\ peers' = [peers EXCEPT ![cmd.arg.addr] = "none"]
                            /\ Publish(Raw("Disconnected", 0, 0, cmd.arg.addr, FALSE))
                       ELSE NoPublish /\ UNCHANGED peers
                    /\ UNCHANGED reply
               [] OTHER ->
                    NoPublish /\ UNCHANGED <<peers, reply>>
    /\ UNCHANGED <<mapperVars, auxVars, running, chainHeight, woken, op, arg, pc, subscribed, negotiated,
                   sendResult, wakeResult, result>>

\* The command channel is drained: the reactor goes back to waiting.
ReactorSleep ==
    /\ running /\ woken /\ commands = <<>>
    /\ woken' = FALSE
    /\ UNCHANGED <<mapperVars, auxVars, running, chainHeight, peers, commands, syncedSeen, callerVars>>

\* The chain reaches a new best height: ChainEvent::Synced(hash, height).
ReactorSynced ==
    /\ running
    /\ \E h \in (chainHeight + 1)..MaxChain :
        /\ chainHeight' = h
        /\ Publish(Raw("Synced", h, HashAt(h), "p1", FALSE))
    /\ UNCHANGED <<mapperVars, auxVars, running, peers, commands, woken, op, arg, pc, subscribed, reply,
                   negotiated, sendResult, wakeResult, result>>

\* PeerEvent::Connected
PeerConnected ==
    /\ running
    /\ \E a \in Addrs :
        /\ peers[a] \in {"none", "connecting"}
        /\ peers' = [peers EXCEPT ![a] = "connected"]
        /\ Publish(Raw("Connected", 0, 0, a, FALSE))
    /\ UNCHANGED <<mapperVars, auxVars, running, chainHeight, commands, woken, op, arg, pc, subscribed, reply,
                   negotiated, sendResult, wakeResult, result>>

\* PeerEvent::Negotiated, with or without the services a caller asks for.
PeerNegotiated ==
    /\ running
    /\ \E a \in Addrs, services \in BOOLEAN :
        /\ peers[a] = "connected"
        /\ peers' = [peers EXCEPT ![a] = IF services THEN "negotiated" ELSE "unserviced"]
        /\ Publish(Raw("Negotiated", 0, 0, a, services))
    /\ UNCHANGED <<mapperVars, auxVars, running, chainHeight, commands, woken, op, arg, pc, subscribed, reply,
                   negotiated, sendResult, wakeResult, result>>

\* PeerEvent::Disconnected
PeerDisconnected ==
    /\ running
    /\ \E a \in Addrs :
        /\ peers[a] \in {"connected", "negotiated", "unserviced"}
        /\ peers' = [peers EXCEPT ![a] = "none"]
        /\ Publish(Raw("Disconnected", 0, 0, a, FALSE))
    /\ UNCHANGED <<mapperVars, auxVars, running, chainHeight, commands, woken, op, arg, pc, subscribed, reply,
                   negotiated, sendResult, wakeResult, result>>

\* Reactor::run returns: the command receiver and the publisher are dropped.
ReactorExit ==
    /\ running
    /\ running' = FALSE
    /\ commands' = <<>>
    /\ woken' = FALSE
    /\ UNCHANGED <<mapperVars, auxVars, chainHeight, peers, syncedSeen, callerVars>>

----------------------------------------------------------------------------
\* Handle::shutdown on the clones of the handle.

\* Cloned handles that call shutdown.
NumClones == 2

Clones == 1..NumClones

\* `chan::bounded(1)`: the capacity of the shutdown channel.
ShutdownCapacity == 1

\* `self.shutdown.send(())?`: a send on the bounded channel, which waits while
\* the channel is full and fails once the receiver is gone.
ShutdownSend(k) ==
    /\ closing[k] = "send"
    /\ IF running
       THEN /\ shutdown < ShutdownCapacity
            /\ shutdown' = shutdown + 1
            /\ closing' = [closing EXCEPT ![k] = "wake"]
       ELSE /\ closing' = [closing EXCEPT ![k] = "err"]
            /\ UNCHANGED shutdown
    /\ UNCHANGED <<mapperVars, handleVars, publisherVars, startupVars, cloneVars>>

\* `self.waker.wake()?; Ok(())`
ShutdownWake(k) ==
    /\ closing[k] = "wake"
    /\ \E ok \in BOOLEAN :
        IF ok
        THEN /\ woken' = (woken \/ running)
             /\ closing' = [closing EXCEPT ![k] = "ok"]
        ELSE /\ closing' = [closing EXCEPT ![k] = "err"]
             /\ UNCHANGED woken
    /\ UNCHANGED <<mapperVars, running, chainHeight, peers, commands, syncedSeen,
                   callerVars, shutdown, publisherVars, startupVars, cloneVars>>

\* The woken reactor finds the shutdown signal and leaves Reactor::run: the
\* shutdown and command receivers are dropped.
ReactorShutdown ==
    /\ running /\ woken /\ shutdown > 0
    /\ running' = FALSE
    /\ woken' = FALSE
    /\ commands' = <<>>
    /\ shutdown' = 0
    /\ UNCHANGED <<mapperVars, chainHeight, peers, syncedSeen, callerVars, closing,
                   publisherVars, startupVars, cloneVars>>

\* A clone of the handle dispatching a fire-and-forget command.
CloneId(k) == 0 - k

Dispatch(i, res) == [pc |-> i, res |-> res]

\* The statement of Handle::_command clone k executes next.
CloneStmt(k) ==
    IF dispatching[k].res /= "none" THEN "return" ELSE command[dispatching[k].pc]

\* `Ok(())` after the last statement of _command.
CloneAdvance(k) ==
    dispatching' = [dispatching EXCEPT ![k] =
                      Dispatch(@.pc + 1, IF @.pc = Len(command) THEN "ok" ELSE "none")]

\* `self.commands.send(cmd)?` on a clone.
CloneSend(k) ==
    /\ CloneStmt(k) = "send"
    /\ IF running
       THEN /\ commands' = Append(commands, Cmd("GetBlock", Arg(0, "p1"), CloneId(k)))
            /\ CloneAdvance(k)
       ELSE /\ dispatching' = [dispatching EXCEPT ![k].res = "err_send"]
            /\ UNCHANGED commands
    /\ UNCHANGED <<mapperVars, running, chainHeight, peers, woken, syncedSeen, callerVars,
                   shutdownVars, publisherVars, startupVars>>

\* `self.waker.wake()?` on a clone.
CloneWake(k) ==
    /\ CloneStmt(k) = "wake"
    /\ \E ok \in BOOLEAN :
        IF ok
        THEN /\ woken' = (woken \/ running)
             /\ CloneAdvance(k)
        ELSE /\ dispatching' = [dispatching EXCEPT ![k].res = "err_wake"]
             /\ UNCHANGED woken
    /\ UNCHANGED <<mapperVars, running, chainHeight, peers, commands, syncedSeen, callerVars,
                   shutdownVars, publisherVars, startupVars>>

\* No clone is dispatching.
CloneIdle == dispatching = [k \in Clones |-> Dispatch(1, "idle")]

\* No handle has called shutdown.
ShutdownIdle ==
    /\ shutdown = 0
    /\ closing = [k \in Clones |-> "idle"]

----------------------------------------------------------------------------
\* The Publisher of Client::new and the four sinks registered with it.

\* Events published in one run.
MaxPublished == 2

\* The four event sinks of the client.
Sinks == {"events", "blocks", "filters", "spv"}

\* A publisher that lost the registration of the blocks sink.
publishers_without_blocks == <<"events", "filters", "spv">>

\* Publisher::default().register(event_pub).register(blocks_pub)
\*     .register(filters_pub).register(publisher)
publishers == <<"events", "blocks", "filters", "spv">>

\* `for p in self.publishers.iter_mut() { p.publish(e.clone()); }` from the
\* i-th registered sink on.
RECURSIVE publish_from(_, _, _)
publish_from(i, h, e) ==
    IF i > Len(publishers)
    THEN h
    ELSE publish_from(i + 1, [h EXCEPT ![publishers[i]] = Append(@, e)], e)

\* Publisher::publish
publish(h, e) == publish_from(1, h, e)

\* The raw event sink: `|e, p| p.emit(e)`.
events_sink(e) == <<e>>

\* A blocks sink that emits for every event.
blocks_sink_every_event(e) == <<e.height>>

\* The blocks sink: emits (block, height) for InventoryEvent::BlockProcessed.
blocks_sink(e) == IF e.type = "BlockProcessed" THEN <<e.height>> ELSE <<>>

\* The filters sink: emits (filter, block_hash, height) for FilterEvent::FilterReceived.
filters_sink(e) == IF e.type = "FilterReceived" THEN <<e.height>> ELSE <<>>

\* The events the protocol publishes in this part of the model.
PublishedEvents ==
    {Event("BlockProcessed", h, FALSE, TRUE, fees) : h \in Heights, fees \in BOOLEAN}
    \cup {Event("FilterProcessed", h, matched, TRUE, FALSE) : h \in Heights, matched \in BOOLEAN}
    \cup {Event("FilterReceived", h, FALSE, TRUE, FALSE) : h \in Heights}
    \cup {Event("RescanStarted", h, FALSE, TRUE, FALSE) : h \in Heights}
    \cup {Event("PeerConnected", 0, FALSE, TRUE, FALSE)}

\* The reactor publishes one event: every registered sink runs on it in turn,
\* the last one being the closure around spv::Mapper::process.
PublisherPublish(e) ==
    /\ Len(source) < MaxPublished
    /\ status = "ok"
    /\ source' = Append(source, e)
    /\ handed' = publish(handed, e)
    /\ IF handed'["spv"] /= handed["spv"] THEN MapperStep(e) ELSE UNCHANGED mapperVars
    /\ topics' = [s \in Sinks |->
                    IF handed'[s] = handed[s] THEN topics[s]
                    ELSE topics[s] \o
                         (CASE s = "events" -> events_sink(e)
                            [] s = "blocks" -> blocks_sink(e)
                            [] s = "filters" -> filters_sink(e)
                            [] s = "spv" -> emitted')]
    /\ UNCHANGED <<handleVars, shutdownVars, startupVars, cloneVars>>

\* Nothing has been published.
PublisherIdle ==
    /\ source = <<>>
    /\ handed = [s \in Sinks |-> <<>>]
    /\ topics = [s \in Sinks |-> <<>>]

----------------------------------------------------------------------------
\* Client::run: opening the stores, loading, and starting the reactor.

\* Loading events one load or verify pass publishes at most.
MaxLoaded == 1

Stores == {"headers", "filters", "peers"}

Call(o, r) == [op |-> o, res |-> r]

\* The results a store call can have.
Results(o) == IF o = "create" THEN {"ok", "exists", "err"} ELSE {"ok", "err"}

\* A store opening that goes on with a store whose check failed.
store_next_never_heals(log) ==
    IF log = <<>> THEN "create"
    ELSE LET last == log[Len(log)]
         IN CASE last.op = "create" /\ last.res = "ok" -> "done"
              [] last.op = "create" /\ last.res = "exists" -> "open"
              [] last.op = "open" /\ last.res = "ok" -> "check"
              [] last.op = "check" -> "height"
              [] last.op = "height" /\ last.res = "ok" -> "done"
              [] OTHER -> "fail"

\* The `match store::File::create(..)` of headers.db and of filters.db: the
\* next call on the store after the calls in log, "done" when the store is
\* ready and "fail" when run returns the error.
store_next(log) ==
    IF log = <<>> THEN "create"
    ELSE LET last == log[Len(log)]
         IN CASE last.op = "create" /\ last.res = "ok" -> "done"
              [] last.op = "create" /\ last.res = "exists" -> "open"
              [] last.op = "open" /\ last.res = "ok" -> "check"
              [] last.op = "check" /\ last.res = "ok" -> "height"
              [] last.op = "check" /\ last.res = "err" -> "heal"
              [] last.op = "heal" /\ last.res = "ok" -> "height"
              [] last.op = "height" /\ last.res = "ok" -> "done"
              [] OTHER -> "fail"

\* The `match peer::Cache::create(..)` of peers.json.
cache_next(log) ==
    IF log = <<>> THEN "create"
    ELSE LET last == log[Len(log)]
         IN CASE last.op = "create" /\ last.res = "ok" -> "done"
              [] last.op = "create" /\ last.res = "exists" -> "open"
              [] last.op = "open" /\ last.res = "ok" -> "done"
              [] OTHER -> "fail"

Do(d, o) == [do |-> d, on |-> o]

\* A run that closes the loading channel before the filter headers are verified.
run_close_before_verify ==
    << Do("store", "headers"), Do("load", "BlockHeaderLoaded"),
       Do("store", "filters"), Do("load", "FilterHeaderLoaded"),
       Do("close", "loading"), Do("load", "FilterHeaderVerified"),
       Do("cache", "peers"), Do("seed", "peers"),
       Do("service", "new"), Do("reactor", "run") >>

\* Client::run: the statements in source order.
run ==
    << Do("store", "headers"), Do("load", "BlockHeaderLoaded"),
       Do("store", "filters"), Do("load", "FilterHeaderLoaded"),
       Do("load", "FilterHeaderVerified"), Do("close", "loading"),
       Do("cache", "peers"), Do("seed", "peers"),
       Do("service", "new"), Do("reactor", "run") >>

\* The statement Client::run executes next.
RunStmt ==
    IF outcome.result /= "none" \/ step > Len(run) THEN Do("return", "run") ELSE run[step]

\* The statement is done, or its error is returned with `?`.
RunAdvance(ok) ==
    IF ok
    THEN step' = step + 1 /\ UNCHANGED outcome
    ELSE outcome' = [outcome EXCEPT !.result = "err"] /\ UNCHANGED step

\* One call on headers.db or filters.db.
StoreCall ==
    /\ RunStmt.do = "store"
    /\ LET s == RunStmt.on
           o == store_next(stores[s])
       IN \E r \in Results(o) :
            LET log == Append(stores[s], Call(o, r))
            IN /\ stores' = [stores EXCEPT ![s] = log]
               /\ IF store_next(log) \in {"done", "fail"}
                  THEN RunAdvance(store_next(log) = "done")
                  ELSE UNCHANGED <<step, outcome>>
    /\ UNCHANGED <<mapperVars, handleVars, shutdownVars, cloneVars, publisherVars, loading>>

\* One call on peers.json.
CacheCall ==
    /\ RunStmt.do = "cache"
    /\ LET s == RunStmt.on
           o == cache_next(stores[s])
       IN \E r \in Results(o) :
            LET log == Append(stores[s], Call(o, r))
            IN /\ stores' = [stores EXCEPT ![s] = log]
               /\ IF cache_next(log) \in {"done", "fail"}
                  THEN RunAdvance(cache_next(log) = "done")
                  ELSE UNCHANGED <<step, outcome>>
    /\ UNCHANGED <<mapperVars, handleVars, shutdownVars, cloneVars, publisherVars, loading>>

\* load_with / verify_with: `self.loading.publish(..)` once per height, then
\* Ok or the pass's error.
Load ==
    /\ RunStmt.do = "load"
    /\ \E n \in 0..MaxLoaded, ok \in BOOLEAN :
        /\ loading' = [loading EXCEPT
                          !.events = @ \o [i \in 1..n |-> RunStmt.on],
                          !.late = @ \/ (loading.closed /\ n > 0)]
        /\ RunAdvance(ok)
    /\ UNCHANGED <<mapperVars, handleVars, shutdownVars, cloneVars, publisherVars, stores>>

\* `self.loading.close();`
CloseLoading ==
    /\ RunStmt.do = "close"
    /\ loading' = [loading EXCEPT !.closed = TRUE]
    /\ RunAdvance(TRUE)
    /\ UNCHANGED <<mapperVars, handleVars, shutdownVars, cloneVars, publisherVars, stores>>

\* `if config.connect.is_empty() && peers.is_empty() { peers.seed(..)?; peers.flush()?; }`
Seed ==
    /\ RunStmt.do = "seed"
    /\ \E needed \in BOOLEAN, ok \in BOOLEAN : RunAdvance(~needed \/ ok)
    /\ UNCHANGED <<mapperVars, handleVars, shutdownVars, cloneVars, publisherVars, stores, loading>>

\* `Service::new(cache, filters, peers, ..)`
BuildService ==
    /\ RunStmt.do = "service"
    /\ outcome' = [outcome EXCEPT !.service = TRUE]
    /\ step' = step + 1
    /\ UNCHANGED <<mapperVars, handleVars, shutdownVars, cloneVars, publisherVars, stores, loading>>

\* `self.reactor.run(..)` is entered.
ReactorRun ==
    /\ RunStmt.do = "reactor"
    /\ outcome' = [outcome EXCEPT !.reactor = TRUE]
    /\ step' = step + 1
    /\ UNCHANGED <<mapperVars, handleVars, shutdownVars, cloneVars, publisherVars, stores, loading>>

\* `self.reactor.run(..)?; Ok(())`: the reactor returned.
RunReturn ==
    /\ step > Len(run) /\ outcome.result = "none"
    /\ \E r \in {"ok", "err"} : outcome' = [outcome EXCEPT !.result = r]
    /\ UNCHANGED <<mapperVars, handleVars, shutdownVars, cloneVars, publisherVars, step, stores, loading>>

\* Client::run has not been called.
StartupIdle ==
    /\ step = 1
    /\ stores = [s \in Stores |-> <<>>]
    /\ loading = [closed |-> FALSE, events |-> <<>>, late |-> FALSE]
    /\ outcome = [service |-> FALSE, reactor |-> FALSE, result |-> "none"]

AuxIdle == ShutdownIdle /\ PublisherIdle /\ StartupIdle /\ CloneIdle

----------------------------------------------------------------------------
ReactorInit ==
    /\ running = TRUE
    /\ chainHeight = 0
    /\ peers = [a \in Addrs |-> "none"]
    /\ commands = <<>>
    /\ woken = FALSE
    /\ syncedSeen = {}

CallerInit(ops) ==
    /\ op \in [Callers -> ops \cup BackgroundOps]
    /\ arg \in [Callers -> UNION {Args(o) : o \in ops \cup BackgroundOps}]
    /\ \A c \in Callers : arg[c] \in Args(op[c])
    /\ \A c \in Callers : op[c] \in (IF c = 1 THEN ops ELSE BackgroundOps)
    /\ pc = [c \in Callers |-> 1]
    /\ subscribed = [c \in Callers |-> FALSE]
    /\ backlog = [c \in Callers |-> <<>>]
    /\ reply = [c \in Callers |-> Empty]
    /\ negotiated = [c \in Callers |-> {}]
    /\ sendResult = [c \in Callers |-> "none"]
    /\ wakeResult = [c \in Callers |-> "none"]
    /\ result = [c \in Callers |-> Empty]
    /\ missed = [c \in Callers |-> FALSE]

\* Client::new and Client::handle: no operation has been called.
HandleIdle == ReactorInit /\ CallerInit({"get_block"})

\* The mapper plays no part in the Handle's operations.
MapperIdle == MapperInit /\ debug_build = FALSE

HandleInit == MapperIdle /\ ReactorInit /\ CallerInit(Ops) /\ AuxIdle

HandleNext ==
    \/ \E c \in Callers : Subscribe(c)
    \/ \E c \in Callers : Send(c)
    \/ \E c \in Callers : Wake(c)
    \/ \E c \in Callers : Recv(c)
    \/ \E c \in Callers : RecvDisconnected(c)
    \/ \E c \in Callers : WaitEvent(c)
    \/ \E c \in Callers : WaitTimeout(c)
    \/ ReactorCommand
    \/ ReactorSleep
    \/ ReactorSynced
    \/ PeerConnected
    \/ PeerNegotiated
    \/ PeerDisconnected
    \/ ReactorExit

HandleSpec == HandleInit /\ [][HandleNext]_vars

\* A caller dispatching one command while the clones of the handle shut the
\* client down.
DispatchInit ==
    /\ MapperIdle /\ ReactorInit /\ CallerInit(DispatchOps)
    /\ shutdown = 0
    /\ closing = [k \in Clones |-> "send"]
    /\ PublisherIdle /\ StartupIdle /\ CloneIdle

DispatchNext ==
    \/ \E c \in Callers : AssertRange(c)
    \/ \E c \in Callers : Send(c)
    \/ \E c \in Callers : Wake(c)
    \/ \E c \in Callers : Recv(c)
    \/ \E c \in Callers : RecvDisconnected(c)
    \/ \E k \in Clones : ShutdownSend(k)
    \/ \E k \in Clones : ShutdownWake(k)
    \/ ReactorCommand
    \/ ReactorSleep
    \/ ReactorShutdown

DispatchSpec == DispatchInit /\ [][DispatchNext]_vars

\* The handle and its clones dispatching commands to a reactor that sleeps
\* when the command channel is drained.
WakeupInit ==
    /\ MapperIdle /\ ReactorInit /\ CallerInit({"get_block"})
    /\ ShutdownIdle /\ PublisherIdle /\ StartupIdle
    /\ dispatching = [k \in Clones |-> Dispatch(1, "none")]

WakeupNext ==
    \/ \E c \in Callers : Send(c)
    \/ \E c \in Callers : Wake(c)
    \/ \E k \in Clones : CloneSend(k)
    \/ \E k \in Clones : CloneWake(k)
    \/ ReactorCommand
    \/ ReactorSleep
    \/ ReactorExit

WakeupSpec == WakeupInit /\ [][WakeupNext]_vars

\* The reactor thread publishing protocol events to the four sinks.
PublisherInit == MapperInit /\ HandleIdle /\ AuxIdle

PublisherNext == \E e \in PublishedEvents : PublisherPublish(e)

PublisherSpec == PublisherInit /\ [][PublisherNext]_vars

\* Client::run up to the return of the reactor.
StartupInit == MapperIdle /\ HandleIdle /\ AuxIdle

StartupNext ==
    \/ StoreCall
    \/ Load
    \/ CloseLoading
    \/ CacheCall
    \/ Seed
    \/ BuildService
    \/ ReactorRun
    \/ RunReturn

StartupSpec == StartupInit /\ [][StartupNext]_vars

----------------------------------------------------------------------------
Init == MapperInit /\ HandleIdle /\ AuxIdle

Next ==
    \/ ProcessTranslated
    \/ ProcessIgnored
    \/ ProcessChainSynced
    \/ ProcessBlockProcessed
    \/ ProcessRescanStarted
    \/ ProcessFilterProcessed

Spec == Init /\ [][Next]_vars

----------------------------------------------------------------------------
TypeOK ==
    /\ tip \in Heights /\ sync_height \in Heights
    /\ filter_height \in Heights /\ block_height \in Heights
    /\ pending \subseteq Heights
    /\ debug_build \in BOOLEAN

----------------------------------------------------------------------------
\* Properties of the mapper.

SyncedEmitted == {emitted[i] : i \in {j \in 1..Len(emitted) : emitted[j].type = "Synced"}}

EmittedTypes == {emitted[i].type : i \in 1..Len(emitted)}

Removed == pre.pending \ pending

Inserted == pending \ pre.pending

\* C1: whenever Synced{height} is emitted, no height <= height is left in
\* pending, i.e. every matched block up to the reported height was delivered.
C1_SyncedAfterMatchedBlocks ==
    (filterOrdered /\ status = "ok") =>
        \A s \in SyncedEmitted : \A h \in pending : h > s.height

\* C2: while every FilterProcessed has height >= filter_height, the two
\* assert!s of process never fire and block_height <= filter_height and
\* sync_height <= filter_height hold after every event.
C2_CursorsBelowFilter ==
    filterOrdered =>
        /\ status \notin {"assert_block", "assert_sync"}
        /\ block_height <= filter_height
        /\ sync_height <= filter_height

\* A rescan lowered the cursors and the next events kept them ordered.
C2_Witness ==
    /\ filterOrdered /\ status = "ok"
    /\ ev.type = "RescanStarted"
    /\ ev.height < pre.sync_height
    /\ pre.pending /= {}

\* C3: a process step never lowers sync_height unless the event is RescanStarted.
C3_SyncMonotone ==
    ev.type /= "RescanStarted" => sync_height >= pre.sync_height

\* A step other than a rescan raised an already positive sync_height.
C3_Witness ==
    /\ ev.type = "BlockProcessed"
    /\ pre.sync_height > 0
    /\ sync_height > pre.sync_height

\* C4: after every event every pending height h satisfies
\* block_height < h <= filter_height.
C4_PendingBetweenCursors ==
    (filterOrdered /\ status = "ok") =>
        \A h \in pending : block_height < h /\ h <= filter_height

C6_SyncedHeightIsFilterIffDrained ==
    (filterOrdered /\ status = "ok") =>
        \A s \in SyncedEmitted :
            /\ (s.height = filter_height) <=> (pending = {})
            /\ pending /= {} => s.height = block_height

\* C7: a BlockProcessed whose height is not pending changes no field and emits
\* neither BlockMatched nor Synced.
C7_UnsolicitedBlockIgnored ==
    (ev.type = "BlockProcessed" /\ ev.height \notin pre.pending) =>
        /\ status = "ok"
        /\ Fields(Current) = pre
        /\ EmittedTypes \cap {"BlockMatched", "Synced"} = {}

\* An unsolicited block with fees arrived while another block was awaited.
C7_Witness ==
    /\ ev.type = "BlockProcessed" /\ ev.height \notin pre.pending
    /\ ev.fees
    /\ pre.pending /= {}
    /\ ev.height > pre.filter_height
    /\ "FeeEstimated" \in EmittedTypes

----------------------------------------------------------------------------
\* Properties of the Handle.

Returned(c) == result[c] /= Empty

\* C8: wait_for_height(h) returns the block hash at height h whenever
\* ChainEvent::Synced(hash, h) is published, before or after the subscription
\* or the reply to GetBlockByHeight: it returns nothing but that hash, and it
\* times out only if no Synced(_, h) has been published by then.
C8_WaitForHeightNeverMisses ==
    [][\A c \in Callers :
          (op[c] = "wait_for_height" /\ ~Returned(c) /\ Returned(c)') =>
              \/ result'[c] = Val("ok", HashAt(arg[c].num), {})
              \/ result'[c].tag = "timeout" /\ arg[c].num \notin syncedSeen
              \/ result'[c].tag = "err_command" /\ "err" \in {sendResult'[c], wakeResult'[c]}
              \/ result'[c].tag = "err_disconnected" /\ ~running]_vars

\* GetBlockByHeight was answered None, and the hash came with the Synced event
\* that was published afterwards.
C8_Witness ==
    \E c \in Callers :
        /\ op[c] = "wait_for_height"
        /\ pc[c] = Len(wait_for_height) + 1
        /\ result[c] = Val("ok", HashAt(arg[c].num), {})
        /\ arg[c].num \in syncedSeen

\* C9: connect, disconnect, wait_for_peers and wait_for_height subscribe before
\* their command is put on the command channel, so every event published
\* after the command was enqueued reaches the subscription.
C9_SubscribeBeforeCommand ==
    \A c \in Callers :
        op[c] \in WaitingOps =>
            /\ (InFlight(c) /\ sendResult[c] /= "none") => subscribed[c]
            /\ ~missed[c]

\* connect returned on the Connected event that answered its Connect command.
C9_Witness ==
    \E c \in Callers :
        /\ op[c] = "connect"
        /\ sendResult[c] = "ok"
        /\ result[c].tag = "ok"
        /\ peers[arg[c].addr] = "connected"

\* C10: a dispatch enqueues the command and then wakes the reactor; the waker
\* is not invoked when the send failed, the operation gets past the dispatch
\* only if both succeeded, and a failure of either makes it return an error.
C10_SendThenWake ==
    \A c \in Callers :
        /\ wakeResult[c] /= "none" => sendResult[c] = "ok"
        /\ "err" \in {sendResult[c], wakeResult[c]} => result[c].tag = "err_command"
        /\ Stmt(c) \in {"recv", "wait"} => sendResult[c] = "ok" /\ wakeResult[c] = "ok"
        /\ result[c].tag \notin {"empty", "err_command"} =>
               sendResult[c] = "ok" /\ wakeResult[c] = "ok"

\* The command was enqueued, the wake failed, and the operation returned an error.
C10_Witness ==
    \E c \in Callers :
        /\ sendResult[c] = "ok" /\ wakeResult[c] = "err"
        /\ result[c].tag = "err_command"
        /\ \E i \in 1..Len(commands) : commands[i].from = c

\* C11: wait_for_peers(n, flags) returns in the very step that takes a GetPeers
\* reply listing n matching peers, with those peers, before any event is taken
\* from its subscription.
C11_WaitForPeersReturnsAtOnce ==
    [][\A c \in Callers :
          (/\ op[c] = "wait_for_peers" /\ Stmt(c) = "recv"
           /\ reply[c] /= Empty /\ reply'[c] = Empty
           /\ Cardinality(reply[c].set) = arg[c].num) =>
              /\ result'[c] = Val("ok", 0, reply[c].set)
              /\ Stmt(c)' = "return"]_vars

\* wait_for_peers returned from the reply, with the peer it asked for, while
\* its subscription was still unread.
C11_Witness ==
    \E c \in Callers :
        /\ op[c] = "wait_for_peers"
        /\ pc[c] = Len(wait_for_peers)
        /\ result[c].tag = "ok"
        /\ Cardinality(result[c].set) = arg[c].num

\* C12: an operation that waits for a reply or an event is bounded by the
\* timeout: whenever it is in flight the caller can take a step on its own,
\* without the reactor replying or dropping the reply channel.
C12_EveryWaitTimesOut ==
    \A c \in Callers :
        InFlight(c) =>
            \/ Stmt(c) \in {"subscribe", "send", "wake"}
            \/ Stmt(c) = "wait" /\ (ENABLED WaitEvent(c) \/ ENABLED WaitTimeout(c))
            \/ Stmt(c) = "recv" /\ (ENABLED Recv(c) \/ ENABLED RecvDisconnected(c))

\* C13: Handle::shutdown never blocks its caller: whenever a clone of the
\* handle is about to send the shutdown signal it can do so at once, whatever
\* the other clones did and whether or not the reactor took an earlier signal.
C13_ShutdownNeverBlocks ==
    \A k \in Clones : closing[k] = "send" => ENABLED ShutdownSend(k)

\* C14: get_filters with an empty range fails at the API boundary: the caller
\* panics before the command is sent and before the reactor is woken, and no
\* GetFilters command with an empty range is ever on the command channel.
C14_EmptyRangeFailsBeforeDispatch ==
    /\ \A c \in Callers :
          (op[c] = "get_filters" /\ range_is_empty(arg[c])) =>
              /\ sendResult[c] = "none" /\ wakeResult[c] = "none"
              /\ reply[c] = Empty
              /\ ~InFlight(c) => result[c] = Val("panic", 0, {})
    /\ \A i \in 1..Len(commands) :
          commands[i].type = "GetFilters" => ~range_is_empty(commands[i].arg)

\* get_filters was called with an empty range and failed, while another
\* get_filters could have gone through.
C14_Witness ==
    \E c \in Callers :
        /\ op[c] = "get_filters" /\ range_is_empty(arg[c])
        /\ result[c].tag = "panic"
        /\ pc[c] = 2

\* C15: each of the four registered sinks is handed every published event
\* exactly once and in publication order; the raw event topic shows the source
\* order and the mapper has processed exactly the published events, the last
\* published one last.
C15_EverySinkGetsEveryEvent ==
    /\ \A s \in Sinks : handed[s] = source
    /\ topics["events"] = source
    /\ source /= <<>> => ev = source[Len(source)]

\* Two different events were published and the mapper emitted on its topic.
C15_Witness ==
    /\ Len(source) = 2
    /\ source[1] /= source[2]
    /\ source[2].type = "BlockProcessed"
    /\ topics["spv"] /= <<>>
    /\ topics["blocks"] /= <<>>

\* Properties of Client::run.

Has(s, o) == \E i \in 1..Len(stores[s]) : stores[s][i].op = o

\* The result of call o on store s, "none" if it was not made.
Res(s, o) ==
    IF Has(s, o)
    THEN stores[s][CHOOSE i \in 1..Len(stores[s]) : stores[s][i].op = o].res
    ELSE "none"

\* Statement st of run has completed without error.
Past(st) == \E i \in 1..Len(run) : run[i] = st /\ step > i

Ready(s) == Past(Do(IF s = "peers" THEN "cache" ELSE "store", s))

Loaded ==
    /\ Past(Do("load", "BlockHeaderLoaded"))
    /\ Past(Do("load", "FilterHeaderLoaded"))
    /\ Past(Do("load", "FilterHeaderVerified"))

\* C16 as stated: the loading channel is closed only after all three stores
\* (headers, filters, peer cache) are initialized, before the Service is built
\* and the reactor run, and no Loading event is published after the close.
C16_ClosedAfterAllStores ==
    /\ loading.closed => \A s \in Stores : Ready(s)
    /\ (outcome.service \/ outcome.reactor) => loading.closed
    /\ ~loading.late

\* C16 amended: the loading channel is closed only after the header store and
\* the filter-header store are opened, loaded and verified; the peer cache is
\* opened, the Service built and the reactor run only after the close; no
\* Loading event is published after the close.
C16_ClosedAfterLoading ==
    /\ loading.closed => Ready("headers") /\ Ready("filters") /\ Loaded
    /\ (stores["peers"] /= <<>> \/ outcome.service \/ outcome.reactor) => loading.closed
    /\ ~loading.late

\* The reactor runs after a startup that published all three kinds of Loading
\* event and opened an existing peer cache.
C16_Witness ==
    /\ outcome.reactor /\ loading.closed
    /\ Len(loading.events) = 3
    /\ Has("peers", "open")

\* The failing calls on store s.
Failed(s) == {i \in 1..Len(stores[s]) :
                 stores[s][i].res = "err" /\ stores[s][i].op /= "check"}

\* The three-way open of a store with an integrity check: open only an existing
\* store, check it, heal it iff the check fails; a fresh store is neither
\* checked nor healed.
ThreeWayChecked(s) ==
    /\ stores[s] /= <<>> => stores[s][1].op = "create"
    /\ Has(s, "open") => Res(s, "create") = "exists"
    /\ Has(s, "check") => Res(s, "open") = "ok"
    /\ Has(s, "heal") => Res(s, "check") = "err"
    /\ (Has(s, "height") /\ Res(s, "check") = "err") => Res(s, "heal") = "ok"
    /\ Res(s, "create") = "ok" => Len(stores[s]) = 1
    /\ (Ready(s) /\ Res(s, "create") = "exists") =>
           /\ Has(s, "check")
           /\ Res(s, "check") = "err" => Res(s, "heal") = "ok"

\* An error of create, open or heal makes run return an error before the
\* Service is built and the reactor started.
ErrorStopsRun(s) ==
    Failed(s) /= {} =>
        /\ outcome = [service |-> FALSE, reactor |-> FALSE, result |-> "err"]
        /\ ~Ready(s)

\* C17 as stated: each of the three stores (headers, filters, peer cache) is
\* opened three-way with check and heal, and an open or heal error makes run
\* return an error before the reactor is started.
C17_ThreeWayOpenAllStores ==
    \A s \in Stores :
        ThreeWayChecked(s) /\ ErrorStopsRun(s)

\* The two-way open of the peer cache: create, and open if it exists; it is
\* never checked nor healed.
TwoWayOpened(s) ==
    /\ stores[s] /= <<>> => stores[s][1].op = "create"
    /\ Has(s, "open") => Res(s, "create") = "exists"
    /\ ~Has(s, "check") /\ ~Has(s, "heal")
    /\ Ready(s) => (Res(s, "create") = "ok" \/ Res(s, "open") = "ok")

\* C17 amended: headers.db and filters.db are opened three-way with check and
\* heal; peers.json is created or, if it exists, opened without check or heal;
\* an error of create, open or heal on any of the three makes run return an
\* error before the reactor is started.
C17_ThreeWayOpenFileStores ==
    /\ ThreeWayChecked("headers") /\ ThreeWayChecked("filters")
    /\ TwoWayOpened("peers")
    /\ \A s \in Stores : ErrorStopsRun(s)

\* The reactor runs on a healed header store, a sound filter store and an
\* existing peer cache.
C17_Witness ==
    /\ outcome.reactor
    /\ Res("headers", "heal") = "ok"
    /\ Res("filters", "check") = "ok"
    /\ Res("peers", "open") = "ok"

\* Further properties of the mapper.

SyncedAt(out) == {i \in 1..Len(out) : out[i].type = "Synced"}

\* C18: a process call emits at most one Synced, and emits it exactly when the
\* candidate (filter_height if pending is empty, block_height otherwise) after
\* the event's handling is greater than sync_height; its height is the
\* candidate and becomes sync_height, and it is greater than the height of the
\* previous Synced unless a RescanStarted came in between.
C18_OneSyncedWhenCandidateAhead ==
    [][LET at == SyncedAt(emitted')
           candidate == IF pending' = {} THEN filter_height' ELSE block_height'
           before == IF ev'.type = "RescanStarted" THEN ev'.height ELSE sync_height
       IN /\ Cardinality(at) <= 1
          /\ at /= {} => status' = "ok"
          /\ status' = "ok" =>
                /\ at /= {} <=> candidate > before
                /\ at = {} => sync_height' = before
                /\ \A i \in at :
                      /\ emitted'[i].height = candidate
                      /\ sync_height' = candidate
                      /\ lastSynced' = candidate
                      /\ (lastSynced /= -1 /\ ev'.type /= "RescanStarted") =>
                             candidate > lastSynced]_mapperVars

\* A block emitted the second Synced in a row, at a higher height.
C18_Witness ==
    /\ status = "ok"
    /\ ev.type = "BlockProcessed"
    /\ SyncedEmitted /= {}
    /\ lastSynced > pre.sync_height
    /\ pre.sync_height > 0

\* C19: after RescanStarted{start} the mapper runs on with pending empty and
\* filter_height = sync_height = block_height = start, whether start is below
\* or above the previous cursors; tip is unchanged.
C19_RescanResetsCursors ==
    ev.type = "RescanStarted" =>
        /\ status = "ok"
        /\ pending = {}
        /\ filter_height = ev.height /\ sync_height = ev.height /\ block_height = ev.height
        /\ tip = pre.tip

\* A rescan started above the cursors while a matched block was awaited.
C19_Witness ==
    /\ ev.type = "RescanStarted"
    /\ pre.pending /= {}
    /\ ev.height > pre.filter_height
    /\ pre.tip > 0

\* C20: only RescanStarted, FilterProcessed and BlockProcessed change
\* sync_height, filter_height, block_height or pending; every other event
\* leaves the whole mapper state unchanged, except ChainEvent::Synced(_, h),
\* which sets tip to h, changes nothing else and emits no client event.
C20_OnlyThreeEventsMoveCursors ==
    /\ ev.type \notin {"RescanStarted", "FilterProcessed", "BlockProcessed"} =>
          /\ status = "ok"
          /\ sync_height = pre.sync_height /\ filter_height = pre.filter_height
          /\ block_height = pre.block_height /\ pending = pre.pending
    /\ ev.type \notin {"RescanStarted", "FilterProcessed", "BlockProcessed", "ChainSynced"} =>
          tip = pre.tip
    /\ ev.type = "ChainSynced" => tip = ev.height /\ emitted = <<>>

\* The chain tip moved while a matched block was awaited behind the filters.
C20_Witness ==
    /\ ev.type = "ChainSynced"
    /\ tip > pre.tip
    /\ pending /= {}
    /\ sync_height < filter_height

\* Properties of the blocks and filters topics.

IsBlockProcessed(e) == e.type = "BlockProcessed"

IsFilterReceived(e) == e.type = "FilterReceived"

HeightsOf(events) == [i \in 1..Len(events) |-> events[i].height]

\* C21: the blocks topic holds one item for every BlockProcessed published,
\* whether or not the mapper awaited the block, and nothing else; the filters
\* topic holds one item for every FilterReceived published and nothing else.
C21_TopicsFilterTheSource ==
    /\ topics["blocks"] = HeightsOf(SelectSeq(source, IsBlockProcessed))
    /\ topics["filters"] = HeightsOf(SelectSeq(source, IsFilterReceived))

\* A filter was received and a block the mapper did not await was processed:
\* each topic got its item and the mapper emitted nothing.
C21_Witness ==
    /\ Len(source) = 2
    /\ source[1].type = "FilterReceived"
    /\ source[2].type = "BlockProcessed"
    /\ topics["blocks"] = <<source[2].height>>
    /\ topics["filters"] = <<source[1].height>>
    /\ topics["spv"] = <<>>

\* The types of the client events of the last process call, in emission order.
EmittedOrder == [i \in 1..Len(emitted) |-> emitted[i].type]

\* C22: a BlockProcessed for an awaited height emits BlockMatched first, then
\* FeeEstimated if the event carries fees, then Synced if sync advances; a
\* FilterProcessed emits its FilterProcessed client event before the Synced it
\* triggers; no Synced precedes the BlockMatched or FilterProcessed of its step.
C22_EmissionOrder ==
    LET synced == IF sync_height /= pre.sync_height THEN <<"Synced">> ELSE <<>>
    IN /\ (status = "ok" /\ ev.type = "BlockProcessed" /\ ev.height \in pre.pending) =>
             EmittedOrder = <<"BlockMatched">>
                            \o (IF ev.fees THEN <<"FeeEstimated">> ELSE <<>>)
                            \o synced
       /\ (status = "ok" /\ ev.type = "FilterProcessed") =>
             EmittedOrder = <<"FilterProcessed">> \o synced
       /\ \A i \in SyncedAt(emitted) : i = Len(emitted)

\* An awaited block with fees drained pending: all three events were emitted.
C22_Witness ==
    /\ ev.type = "BlockProcessed" /\ ev.height \in pre.pending
    /\ EmittedOrder = <<"BlockMatched", "FeeEstimated", "Synced">>

\* C23: after every event the mapper has processed, block_height <=
\* sync_height, and with it block_height <= sync_height <= filter_height, for
\* every sequence of events from Mapper::new.
C23_BlockBelowSync ==
    status = "ok" => (block_height <= sync_height /\ sync_height <= filter_height)

\* A block moved block_height and sync_height together while a higher matched
\* block was still awaited below the filter cursor.
C23_Witness ==
    /\ status = "ok"
    /\ ev.type = "BlockProcessed"
    /\ block_height > pre.block_height
    /\ block_height = sync_height
    /\ sync_height < filter_height
    /\ pending /= {}

\* C24: after every event the mapper has processed, an empty pending means
\* sync_height = filter_height, so an event that moves no cursor emits no Synced.
C24_DrainedMeansSynced ==
    /\ (status = "ok" /\ pending = {}) => sync_height = filter_height
    /\ (status = "ok" /\ pre.pending = {}
        /\ ev.type \notin {"RescanStarted", "FilterProcessed", "BlockProcessed"}) =>
           SyncedEmitted = {}

\* The last awaited block arrived and sync_height caught up with the filters.
C24_Witness ==
    /\ status = "ok"
    /\ ev.type = "BlockProcessed"
    /\ pre.pending /= {} /\ pending = {}
    /\ pre.sync_height < pre.filter_height
    /\ sync_height = filter_height

\* Properties of the wake-up protocol.

\* A dispatch that has still to issue its wake.
WakePending ==
    \/ \E c \in Callers : Stmt(c) = "wake"
    \/ \E k \in Clones : CloneStmt(k) = "wake"

\* A dispatch whose wake returned an error.
WakeFailed ==
    \/ \E c \in Callers : wakeResult[c] = "err"
    \/ \E k \in Clones : dispatching[k].res = "err_wake"

\* The reactor is asleep with a command on its channel.
AsleepWithCommand == running /\ ~woken /\ commands /= <<>>

WakeDue(cmd) ==
    IF cmd.from < 0
    THEN LET k == 0 - cmd.from
         IN CloneStmt(k) = "wake" \/ dispatching[k].res = "err_wake"
    ELSE Stmt(cmd.from) = "wake" \/ wakeResult[cmd.from] = "err"

TimesOut(c) == result[c] = Empty /\ result'[c].tag = "timeout"

\* C26: wait_for_peers(n, flags) completes whenever at least n matching peers
\* are negotiated: it returns at the reply when the reply lists n or more
\* matching peers, and it times out only while it knows fewer than n.
C26_WaitForPeersAtLeast ==
    [][\A c \in Callers :
          op[c] = "wait_for_peers" =>
             /\ (Stmt(c) = "recv" /\ reply[c] /= Empty /\ reply'[c] = Empty
                 /\ Cardinality(reply[c].set) >= arg[c].num) =>
                    result'[c].tag = "ok"
             /\ TimesOut(c) => Cardinality(negotiated[c]) < arg[c].num]_vars

\* C27: wait_for_height(h) completes whenever the chain's best height becomes
\* >= h after the call started, also when the Synced events jump over h: it
\* times out only while the best height is below h.
C27_WaitForHeightReached ==
    [][\A c \in Callers :
          (op[c] = "wait_for_height" /\ TimesOut(c)) => chainHeight < arg[c].num]_vars

====
